---- MODULE Spec2Model ----
(***************************************************************************)
(* Model of tableau-backup.py (class TableauBackup).                       *)
(*                                                                         *)
(* Spec      : one run of backup_tableau as started by main() under        *)
(*             asyncio.run.                                                *)
(* SpecFetch : a caller that awaits download_workbook / download_datasource*)
(*             directly (the bodies of these coroutines).                  *)
(* SpecWalk  : a caller that awaits create_and_fill_child_dir directly on  *)
(*             an index of well-formed project dicts.                      *)
(*                                                                         *)
(* Python semantics that the model keeps: calling an `async def` function  *)
(* returns a coroutine object and runs none of its body; the body runs     *)
(* only when the coroutine is awaited.  ThreadPoolExecutor.submit(f, ...)  *)
(* calls f(...) in a worker thread and stores what the call returns in the *)
(* future.                                                                 *)
(***************************************************************************)
EXTENDS Integers, Sequences, FiniteSets, TLC

\* ------------------------------------------------------------------ bounds
MaxProjects == 2
MaxWorkers == 2
MaxCalls == 2

\* --------------------------------------------------------------- constants
NoParent == 0
None == "None"
Coroutine == "coroutine"
Kinds == {"workbook", "datasource"}

VARIABLES
  \* inputs of a run: the server's project listing and content, the remote
  \* git repository, the configuration
  listing,            \* project id -> [name, parent_id], what TSC.Pager yields
  serverContent,      \* project id -> kinds of content the server holds
  repoFiles,          \* files of the git repository that clone checks out
  config,             \* self.config: the keys it holds among "overwrite_existing"
  max_workers,        \* self.max_workers
  \* state of the run
  pc,                 \* position of backup_tableau
  server,             \* self.server: None or "Server"
  signedIn,           \* server.auth.sign_in succeeded
  signOuts,           \* number of server.auth.sign_out calls
  cloned,             \* git.Repo.clone_from returned
  project_cache,      \* self.project_cache
  root_projects,      \* list of root project ids (line 213)
  submitted,          \* number of roots handed to executor.submit
  rootFuture,         \* root id -> state of its future in the root pool
  rootResult,         \* root id -> what future.result() returns
  rootCoro,           \* root id -> state of the create_and_fill_child_dir coroutine
  collected,          \* roots whose future.result() was taken (line 229)
  fs,                 \* files under base_dir: path -> bytes
  dirs,               \* project directories created under base_dir
  visits,             \* project id -> number of process_project_content calls
  outcomes,           \* target path -> outcome recorded for its fetch
  decisions,          \* values returned by should_download_file calls
  downloadCalls,      \* number of server.*.download invocations
  commitCalls,        \* number of _commit_and_push_changes invocations
  staged,             \* tree staged by repo.git.add(all=True)
  commits,            \* number of commits created
  pushes,             \* number of pushes performed
  raised,             \* an exception propagates out of backup_tableau
  failure,            \* the step whose exception ended the try block, or "none"
  \* state of a caller that awaits the fetch coroutines itself (SpecFetch)
  awaits,             \* number of calls made so far
  lastCall,           \* the last call: its arguments, what it saw and returned
  digests,            \* what each call of calculate_file_hash saw and returned
  \* state of a caller that awaits create_and_fill_child_dir itself (SpecWalk)
  alle_ordner,        \* the index passed: id -> project dict
  walkStack,          \* frames of create_and_fill_child_dir, innermost last
  ppcTasks,           \* download_tasks of the running process_project_content
  ppcSubmitted,       \* how many of them were handed to executor.submit
  ppcFuture,          \* task index -> state of its future
  ppcResult,          \* task index -> what its future holds
  results,            \* the results list being filled (line 162)
  returned,           \* what each process_project_content call returned
  child_id,           \* the id the caller passed to create_and_fill_child_dir
  handed              \* <<project, task, path>> of every task given to submit

runVars == << listing, serverContent, repoFiles, config, max_workers,
              pc, server, signedIn, signOuts, cloned, project_cache,
              root_projects, submitted, rootFuture, rootResult, rootCoro,
              collected, fs, dirs, visits, outcomes, decisions, downloadCalls,
              commitCalls, staged, commits, pushes, raised, failure >>

inputVars == << listing, serverContent, repoFiles, config, max_workers >>
connVars == << server, signedIn, signOuts >>
indexVars == << project_cache, root_projects >>
poolVars == << submitted, rootFuture, rootResult, rootCoro, collected >>
fetchVars == << fs, dirs, visits, outcomes, decisions, downloadCalls >>
excVars == << raised, failure >>
gitVars == << cloned, commitCalls, staged, commits, pushes >>

callVars == << awaits, lastCall, digests >>

walkVars == << alle_ordner, walkStack, ppcTasks, ppcSubmitted, ppcFuture,
              ppcResult, results, returned, child_id, handed >>

vars == << runVars, callVars, walkVars >>

\* ----------------------------------------------------------------- helpers
Projects == DOMAIN listing

\* name.replace(' ', '_') (line 134), names being sequences of characters
Sanitize(name) == [i \in DOMAIN name |-> IF name[i] = " " THEN "_" ELSE name[i]]

\* extension of the file a content item is written to (lines 85, 109)
Ext(kind) == IF kind = "workbook" THEN "twbx" ELSE "tdsx"

\* Path(directory) / f"{name}.twbx" resp. f"{name}.tdsx" (lines 85, 109)
FilePath(directory, name, kind) == << directory, name, Ext(kind) >>

\* config['base_dir'] (lines 52, 220), a path of one segment
BaseDir == << << "B" >> >>

RECURSIVE Segments(_)
\* the segments of a relative path given as text: the pieces between "/"
Segments(name) ==
  IF \A i \in DOMAIN name : name[i] # "/"
    THEN IF name = << >> THEN << >> ELSE << name >>
    ELSE LET i == CHOOSE k \in DOMAIN name :
                    name[k] = "/" /\ \A j \in 1..(k - 1) : name[j] # "/"
         IN (IF i = 1 THEN << >> ELSE << SubSeq(name, 1, i - 1) >>)
              \o Segments(SubSeq(name, i + 1, Len(name)))

\* Path(base) / name, for a relative name (pathlib)
JoinPath(base, name) == base \o Segments(name)

\* Path(base_dir) / project['Name'].replace(' ', '_') (line 134)
ProjectDir(base_dir, projectName) == JoinPath(base_dir, Sanitize(projectName))

\* The names the server gives: to project p, and to the one item of a kind
\* that a project may hold.
ProjectNames == << << "S" >>, << "S", " ", "E" >>, << "S", "_", "E" >>, << "T" >> >>
ContentName(kind) == IF kind = "workbook" THEN << "Q" >> ELSE << "R" >>

\* The content items the server holds: at most one per project and kind.
ItemsOf(content) ==
  { it \in (DOMAIN content) \X Kinds : it[2] \in content[it[1]] }
Items == ItemsOf(serverContent)

\* the file a run is to write item it to
ItemPath(it) ==
  FilePath(ProjectDir(BaseDir, ProjectNames[it[1]]), ContentName(it[2]), it[2])

RECURSIVE Ancestors(_, _, _)
\* ids met by following parent_id from p, at most n steps
Ancestors(par, p, n) ==
  IF n = 0 \/ par[p] = NoParent \/ par[p] \notin DOMAIN par THEN {}
  ELSE {par[p]} \cup Ancestors(par, par[p], n - 1)

\* parent/child edges form a forest: nobody is its own ancestor
Acyclic(par) ==
  \A p \in DOMAIN par : p \notin Ancestors(par, p, Cardinality(DOMAIN par))

\* projects reachable from a root by parent/child edges
Reachable ==
  { p \in Projects :
      listing[p].parent_id = NoParent
      \/ \E a \in Ancestors([q \in Projects |-> listing[q].parent_id], p,
                            Cardinality(Projects)) :
            listing[a].parent_id = NoParent }

RECURSIVE SeqOfSet(_)
\* ids in increasing order: the order of the listing
SeqOfSet(S) ==
  IF S = {} THEN << >>
  ELSE LET m == CHOOSE x \in S : \A y \in S : x <= y
       IN << m >> \o SeqOfSet(S \ {m})

Range(s) == { s[i] : i \in DOMAIN s }

\* bytes a file may hold
Contents == {"", "a", "b"}

\* hashlib.md5(bytes).hexdigest() (line 75)
MD5(bytes) ==
  CASE bytes = ""  -> "d41d8cd98f00b204e9800998ecf8427e"
    [] bytes = "a" -> "0cc175b9c0f1b6a831c399e269772661"
    [] bytes = "b" -> "92eb5ffee6ae2fec3ad71c777531578f"

\* walkVars when nobody awaits create_and_fill_child_dir
NoWalk ==
  /\ alle_ordner = << >>
  /\ walkStack = << >>
  /\ ppcTasks = << >>
  /\ ppcSubmitted = 0
  /\ ppcFuture = << >>
  /\ ppcResult = << >>
  /\ results = << >>
  /\ returned = << >>
  /\ child_id = 0
  /\ handed = {}

\* lastCall before any call
NoCall ==
  [fn |-> "none", path |-> << >>, existed |-> FALSE, bytesBefore |-> "",
   decision |-> FALSE, status |-> "none", original_hash |-> "",
   new_hash |-> "", result |-> FALSE]

\* ------------------------------------------------- inputs of a run (Init)
\* parent_id functions over 1..n that form a forest
Forests(n) ==
  { par \in [1..n -> (0..n)] : (\A p \in 1..n : par[p] # p) /\ Acyclic(par) }

TargetsOf(content) == { ItemPath(it) : it \in ItemsOf(content) }

\* what the cloned repository may already hold: nothing, one file, or a file
\* for every content item
RepoChoices(content) ==
  {{}} \cup {TargetsOf(content)} \cup { {t} : t \in TargetsOf(content) }

\* the configurations of a run: overwrite_existing set, or the key left out
Configs ==
  { [k \in {"overwrite_existing"} |-> b] : b \in BOOLEAN }
    \cup { [k \in {} |-> FALSE] }

\* dict.get(key, default)
ConfigGet(cfg, key, default) == IF key \in DOMAIN cfg THEN cfg[key] ELSE default

RunInit ==
  /\ \E n \in 1..MaxProjects :
       /\ \E par \in Forests(n) :
            listing = [p \in 1..n |-> [name |-> ProjectNames[p], parent_id |-> par[p]]]
       /\ serverContent \in [1..n -> SUBSET Kinds]
  /\ \E files \in RepoChoices(serverContent) :
       repoFiles = [t \in files |-> "a"]
  /\ config \in Configs
  /\ max_workers \in 1..MaxWorkers
  /\ pc = "connect"
  /\ server = None
  /\ signedIn = FALSE
  /\ signOuts = 0
  /\ cloned = FALSE
  /\ project_cache = << >>
  /\ root_projects = << >>
  /\ submitted = 0
  /\ rootFuture = << >>
  /\ rootResult = << >>
  /\ rootCoro = << >>
  /\ collected = {}
  /\ fs = [t \in {} |-> ""]
  /\ dirs = {}
  /\ visits = [p \in DOMAIN listing |-> 0]
  /\ outcomes = << >>
  /\ decisions = {}
  /\ downloadCalls = 0
  /\ commitCalls = 0
  /\ staged = [t \in {} |-> ""]
  /\ commits = 0
  /\ pushes = 0
  /\ raised = FALSE
  /\ failure = "none"
  /\ awaits = 0
  /\ lastCall = NoCall
  /\ digests = {}
  /\ NoWalk

\* ---------------------------------------------------------- backup_tableau
\* An exception inside the try block of backup_tableau: logged, re-raised
\* (lines 235-237), then the finally clause runs.
Raise(step) ==
  /\ raised' = TRUE
  /\ failure' = step
  /\ pc' = "finally"

\* connect_to_tableau (lines 180-194), called at line 199.
\*   "nocreds"  : TABLEAU_USERNAME / TABLEAU_PASSWORD missing -> ValueError
\*   "noserver" : TSC.Server(...) raises, self.server is not assigned
\*   "denied"   : self.server assigned, server.auth.sign_in raises
\*   "ok"       : signed in
connect_to_tableau ==
  /\ pc = "connect"
  /\ \E result \in {"nocreds", "noserver", "denied", "ok"} :
       /\ server' = IF result \in {"denied", "ok"} THEN "Server" ELSE server
       /\ signedIn' = (result = "ok")
       /\ IF result = "ok"
            THEN pc' = "clone" /\ UNCHANGED excVars
            ELSE Raise(result)
  /\ UNCHANGED << inputVars, signOuts, indexVars, poolVars, fetchVars, gitVars,
                  callVars, walkVars >>

\* git.Repo.clone_from(git_repo, base_dir) (line 202)
clone_from ==
  /\ pc = "clone"
  /\ \E ok \in BOOLEAN :
       IF ok
         THEN /\ cloned' = TRUE
              /\ fs' = repoFiles
              /\ pc' = "list"
              /\ UNCHANGED excVars
         ELSE /\ Raise("clone")
              /\ UNCHANGED << cloned, fs >>
  /\ UNCHANGED << inputVars, connVars, indexVars, poolVars, dirs, visits,
                  outcomes, decisions, downloadCalls, commitCalls, staged,
                  commits, pushes, callVars, walkVars >>

\* every project of the listing taken as a root
roots_all_projects(projects) ==
  SeqOfSet(DOMAIN projects)

\* root_projects = [proj for proj in projects if not proj.parent_id] (line 213)
RootProjects(projects) ==
  SeqOfSet({ p \in DOMAIN projects : projects[p].parent_id = NoParent })

\* self.project_cache = {proj.id: {'name': ..., 'parent_id': ...}} (lines 207-210)
ProjectCache(projects) ==
  [p \in DOMAIN projects |->
     [name |-> projects[p].name, parent_id |-> projects[p].parent_id]]

\* Build project cache and root list (lines 206-213); the executor of
\* line 214 is created with no task.
build_project_cache ==
  /\ pc = "list"
  /\ \E ok \in BOOLEAN :
       IF ok
         THEN /\ project_cache' = ProjectCache(listing)
              /\ root_projects' = RootProjects(listing)
              /\ rootFuture' = [r \in Range(RootProjects(listing)) |-> "none"]
              /\ rootResult' = [r \in Range(RootProjects(listing)) |-> None]
              /\ rootCoro' = [r \in Range(RootProjects(listing)) |-> "none"]
              /\ pc' = IF RootProjects(listing) = << >> THEN "collect" ELSE "submit"
              /\ UNCHANGED excVars
         ELSE /\ Raise("list")
              /\ UNCHANGED << project_cache, root_projects, rootFuture,
                              rootResult, rootCoro >>
  /\ UNCHANGED << inputVars, connVars, submitted, collected, fetchVars, gitVars,
                  callVars, walkVars >>

\* ------------------------------------------- the root pool (lines 214-230)
Running == { r \in DOMAIN rootFuture : rootFuture[r] = "running" }

\* executor.submit(self.create_and_fill_child_dir, ...) for the next root of
\* root_projects (lines 216-224): the task is put on the pool's queue.
submit_root ==
  /\ pc = "submit"
  /\ submitted < Len(root_projects)
  /\ LET r == root_projects[submitted + 1] IN
       rootFuture' = [rootFuture EXCEPT ![r] = "queued"]
  /\ submitted' = submitted + 1
  /\ pc' = IF submitted + 1 = Len(root_projects) THEN "collect" ELSE "submit"
  /\ UNCHANGED << inputVars, connVars, indexVars, rootResult, rootCoro,
                  collected, fetchVars, gitVars, excVars, callVars, walkVars >>

\* first queued task in submission order: the pool's work queue is FIFO
FirstQueued(r) ==
  /\ rootFuture[r] = "queued"
  /\ \A i, j \in DOMAIN root_projects :
       (root_projects[j] = r /\ i < j) => rootFuture[root_projects[i]] # "queued"

\* A worker thread of ThreadPoolExecutor(max_workers) takes a task; at most
\* max_workers threads exist (line 214).
worker_take(r) ==
  /\ FirstQueued(r)
  /\ Cardinality(Running) < max_workers
  /\ rootFuture' = [rootFuture EXCEPT ![r] = "running"]
  /\ UNCHANGED << inputVars, connVars, indexVars, submitted, rootResult,
                  rootCoro, collected, fetchVars, gitVars, pc, excVars, callVars, walkVars >>

\* What the call of a function defined with `async def` does in the calling
\* thread: a coroutine object is created, in state "created", and returned.
\* No statement of the body (lines 169-178) runs until somebody awaits it.
\* backup_tableau never awaits it (line 229 drops the object), so in a run
\* dirs, visits, outcomes, decisions and downloadCalls keep their initial
\* values; the bodies are modelled in SpecWalk and SpecFetch.
CallAsyncDef == [result |-> Coroutine, coro |-> "created"]

\* The worker calls create_and_fill_child_dir(project_cache, base_dir, id,
\* username) and stores the returned value in the future (line 217).
worker_call(r) ==
  /\ rootFuture[r] = "running"
  /\ rootFuture' = [rootFuture EXCEPT ![r] = "done"]
  /\ rootResult' = [rootResult EXCEPT ![r] = CallAsyncDef.result]
  /\ rootCoro' = [rootCoro EXCEPT ![r] = CallAsyncDef.coro]
  /\ UNCHANGED << inputVars, connVars, indexVars, submitted, collected,
                  fetchVars, gitVars, pc, excVars, callVars, walkVars >>

\* collect_result with the commit step called inside the as_completed loop
collect_result_committing(r) ==
  /\ pc = "collect"
  /\ r \in DOMAIN rootFuture
  /\ rootFuture[r] = "done"
  /\ r \notin collected
  /\ collected' = collected \cup {r}
  /\ commitCalls' = commitCalls + 1
  /\ commits' = commits + 1
  /\ pushes' = pushes + 1
  /\ UNCHANGED << inputVars, connVars, indexVars, submitted, rootFuture,
                  rootResult, rootCoro, fetchVars, cloned, staged, pc, excVars, callVars, walkVars >>

\* for future in as_completed(futures): future.result() (lines 228-230).
\* The result is the coroutine object; it is dropped, never awaited.
collect_result(r) ==
  /\ pc = "collect"
  /\ r \in DOMAIN rootFuture
  /\ rootFuture[r] = "done"
  /\ r \notin collected
  /\ collected' = collected \cup {r}
  /\ UNCHANGED << inputVars, connVars, indexVars, submitted, rootFuture,
                  rootResult, rootCoro, fetchVars, gitVars, pc, excVars, callVars, walkVars >>

\* --------------------------------- _commit_and_push_changes (lines 242-261)
\* The with-block of line 214 is left once every future was collected; then
\* line 233 calls the commit step.
AllCollected == collected = Range(root_projects)

\* the commit step called only when something was downloaded
call_commit_if_downloaded ==
  /\ pc = "collect"
  /\ AllCollected
  /\ IF downloadCalls > 0
       THEN commitCalls' = commitCalls + 1 /\ pc' = "add"
       ELSE UNCHANGED commitCalls /\ pc' = "finally"
  /\ UNCHANGED << inputVars, connVars, indexVars, poolVars, fetchVars, cloned,
                  staged, commits, pushes, excVars, callVars, walkVars >>

call_commit_and_push ==
  /\ pc = "collect"
  /\ AllCollected
  /\ commitCalls' = commitCalls + 1
  /\ pc' = "add"
  /\ UNCHANGED << inputVars, connVars, indexVars, poolVars, fetchVars, cloned,
                  staged, commits, pushes, excVars, callVars, walkVars >>

\* repo.git.add(all=True) (line 245): stages the working tree as it is now
git_add ==
  /\ pc = "add"
  /\ \E ok \in BOOLEAN :
       IF ok
         THEN staged' = fs /\ pc' = "commit" /\ UNCHANGED excVars
         ELSE Raise("add") /\ UNCHANGED staged
  /\ UNCHANGED << inputVars, connVars, indexVars, poolVars, fetchVars, cloned,
                  commitCalls, commits, pushes, callVars, walkVars >>

\* repo.index.commit(commit_msg, ...) (line 251)
index_commit ==
  /\ pc = "commit"
  /\ \E ok \in BOOLEAN :
       IF ok
         THEN commits' = commits + 1 /\ pc' = "push" /\ UNCHANGED excVars
         ELSE Raise("commit") /\ UNCHANGED commits
  /\ UNCHANGED << inputVars, connVars, indexVars, poolVars, fetchVars, cloned,
                  commitCalls, staged, pushes, callVars, walkVars >>

\* git_push with a sign_out at the end of the try block, the one of the
\* finally clause still to come
git_push_signing_out ==
  /\ pc = "push"
  /\ \E ok \in BOOLEAN :
       IF ok
         THEN /\ pushes' = pushes + 1 /\ pc' = "finally" /\ UNCHANGED excVars
              /\ signOuts' = signOuts + 1
         ELSE Raise("push") /\ UNCHANGED << pushes, signOuts >>
  /\ UNCHANGED << inputVars, server, signedIn, indexVars, poolVars, fetchVars,
                  cloned, commitCalls, staged, commits, callVars, walkVars >>

\* repo.git.push() (line 255); afterwards backup_tableau leaves its try block
git_push ==
  /\ pc = "push"
  /\ \E ok \in BOOLEAN :
       IF ok
         THEN pushes' = pushes + 1 /\ pc' = "finally" /\ UNCHANGED excVars
         ELSE Raise("push") /\ UNCHANGED pushes
  /\ UNCHANGED << inputVars, connVars, indexVars, poolVars, fetchVars, cloned,
                  commitCalls, staged, commits, callVars, walkVars >>

\* sign_out moved to the end of the try block: skipped when an exception
\* is propagating
sign_out_unless_raised ==
  /\ pc = "finally"
  /\ IF server # None /\ ~raised
       THEN /\ signOuts' = signOuts + 1
            /\ \E ok \in BOOLEAN :
                 /\ raised' = ~ok
                 /\ failure' = IF ok THEN failure ELSE "sign_out"
       ELSE UNCHANGED << signOuts, excVars >>
  /\ pc' = "done"
  /\ UNCHANGED << inputVars, server, signedIn, indexVars, poolVars, fetchVars,
                  gitVars, callVars, walkVars >>

\* finally: if self.server: self.server.auth.sign_out() (lines 238-240).
\* sign_out is a remote call and may itself raise.
finally_sign_out ==
  /\ pc = "finally"
  /\ IF server # None
       THEN /\ signOuts' = signOuts + 1
            /\ \E ok \in BOOLEAN :
                 /\ raised' = (raised \/ ~ok)
                 /\ failure' = IF ok \/ raised THEN failure ELSE "sign_out"
       ELSE UNCHANGED << signOuts, excVars >>
  /\ pc' = "done"
  /\ UNCHANGED << inputVars, server, signedIn, indexVars, poolVars, fetchVars,
                  gitVars, callVars, walkVars >>

RunNext ==
  \/ connect_to_tableau
  \/ clone_from
  \/ build_project_cache
  \/ submit_root
  \/ \E r \in DOMAIN rootFuture : worker_take(r)
  \/ \E r \in DOMAIN rootFuture : worker_call(r)
  \/ \E r \in DOMAIN rootFuture : collect_result(r)
  \/ call_commit_and_push
  \/ git_add
  \/ index_commit
  \/ git_push
  \/ finally_sign_out

Init == RunInit
Next == RunNext
Spec == Init /\ [][Next]_vars

\* ======================================================================
\* The fetch methods, awaited by their caller (SpecFetch)
\* ======================================================================
\* hash of a missing file taken to be that of an empty one
hash_absent_as_empty(files, filepath) ==
  IF filepath \notin DOMAIN files THEN MD5("") ELSE MD5(files[filepath])

\* the sentinel returned for a file without content as well
hash_empty_as_absent(files, filepath) ==
  IF filepath \notin DOMAIN files \/ files[filepath] = ""
    THEN "" ELSE MD5(files[filepath])

\* calculate_file_hash (lines 70-75)
calculate_file_hash(files, filepath) ==
  IF filepath \notin DOMAIN files THEN "" ELSE MD5(files[filepath])

\* skip whenever the file exists, whatever overwrite_existing says
skip_whenever_exists(cfg, files, filepath) ==
  IF filepath \in DOMAIN files THEN FALSE ELSE TRUE

\* should_download_file (lines 77-81); content_id is not read
should_download_file(cfg, files, filepath) ==
  IF ~ConfigGet(cfg, "overwrite_existing", FALSE) /\ filepath \in DOMAIN files
    THEN FALSE
    ELSE TRUE

\* What server.workbooks.download / server.datasources.download may do for
\* one call (lines 93, 117): write the bytes it received to filepath and
\* return; raise ServerResponseError ("denied"); raise another exception,
\* before or after having written to filepath ("error").
RemoteResponses ==
  { [status |-> "ok", wrote |-> TRUE, bytes |-> b] : b \in Contents }
    \cup { [status |-> "denied", wrote |-> FALSE, bytes |-> ""] }
    \cup { [status |-> "error", wrote |-> w, bytes |-> ""] : w \in BOOLEAN }

\* files after the library call
AfterDownload(files, filepath, remote) ==
  IF remote.wrote
    THEN [q \in DOMAIN files \cup {filepath} |->
            IF q = filepath THEN remote.bytes ELSE files[q]]
    ELSE files

\* The body of download_workbook (lines 83-105) and of download_datasource
\* (lines 107-129), which differ in the extension and the endpoint only:
\* what the coroutine returns and does when it is awaited.
download_content(cfg, files, kind, directory, name, remote) ==
  LET filepath == FilePath(directory, name, kind)
      decision == should_download_file(cfg, files, filepath)
      original_hash == calculate_file_hash(files, filepath)
      after == AfterDownload(files, filepath, remote)
      new_hash == calculate_file_hash(after, filepath)
  IN IF ~decision
       THEN [result |-> FALSE, files |-> files, called |-> 0, decision |-> FALSE,
             status |-> "none", original_hash |-> "", new_hash |-> ""]
       ELSE IF remote.status = "ok"
         THEN [result |-> (original_hash # new_hash), files |-> after, called |-> 1,
               decision |-> TRUE, status |-> "ok",
               original_hash |-> original_hash, new_hash |-> new_hash]
         ELSE [result |-> FALSE, files |-> after, called |-> 1, decision |-> TRUE,
               status |-> remote.status, original_hash |-> original_hash,
               new_hash |-> ""]

\* the directories, names and paths the caller passes
CallDirs == { ProjectDir(BaseDir, << "S" >>) }
CallNames == { << "Q" >>, << "R" >> }
CallPaths == { FilePath(d, n, k) : d \in CallDirs, n \in CallNames, k \in Kinds }
\* the paths the caller passes to calculate_file_hash
HashPaths == { FilePath(d, << "Q" >>, k) : d \in CallDirs, k \in Kinds }

FetchInit ==
  /\ listing = [p \in {} |-> [name |-> << >>, parent_id |-> NoParent]]
  /\ serverContent = [p \in {} |-> {}]
  /\ repoFiles = [t \in {} |-> ""]
  /\ config \in Configs
  /\ max_workers \in 1..MaxWorkers
  /\ pc = "caller"
  /\ server = "Server"
  /\ signedIn = TRUE
  /\ signOuts = 0
  /\ cloned = TRUE
  /\ project_cache = << >>
  /\ root_projects = << >>
  /\ submitted = 0
  /\ rootFuture = << >>
  /\ rootResult = << >>
  /\ rootCoro = << >>
  /\ collected = {}
  /\ \E present \in SUBSET { FilePath(d, << "Q" >>, k) : d \in CallDirs, k \in Kinds } :
       fs \in [present -> Contents]
  /\ dirs = CallDirs
  /\ visits = [p \in {} |-> 0]
  /\ outcomes = << >>
  /\ decisions = {}
  /\ downloadCalls = 0
  /\ commitCalls = 0
  /\ staged = [t \in {} |-> ""]
  /\ commits = 0
  /\ pushes = 0
  /\ raised = FALSE
  /\ failure = "none"
  /\ awaits = 0
  /\ lastCall = NoCall
  /\ digests = {}
  /\ NoWalk

NotFetchVars ==
  << listing, serverContent, repoFiles, config, max_workers, pc, connVars,
     indexVars, poolVars, dirs, visits, outcomes, gitVars, excVars >>

\* the caller calls should_download_file(filepath, content_id)
call_should_download_file(filepath) ==
  /\ pc = "caller"
  /\ awaits < MaxCalls
  /\ awaits' = awaits + 1
  /\ LET r == should_download_file(config, fs, filepath) IN
       /\ lastCall' = [NoCall EXCEPT !.fn = "should_download_file",
                                     !.path = filepath,
                                     !.existed = (filepath \in DOMAIN fs),
                                     !.bytesBefore =
                                        IF filepath \in DOMAIN fs THEN fs[filepath] ELSE "",
                                     !.decision = r,
                                     !.result = r]
       /\ decisions' = decisions \cup {r}
  /\ UNCHANGED << NotFetchVars, fs, downloadCalls, digests, walkVars >>

\* the caller calls calculate_file_hash(filepath): the file is opened for
\* reading only (line 74)
call_calculate_file_hash(filepath) ==
  /\ pc = "caller"
  /\ awaits < MaxCalls
  /\ awaits' = awaits + 1
  /\ lastCall' = [NoCall EXCEPT !.fn = "calculate_file_hash",
                                !.path = filepath,
                                !.existed = (filepath \in DOMAIN fs),
                                !.bytesBefore =
                                   IF filepath \in DOMAIN fs THEN fs[filepath] ELSE "",
                                !.new_hash = calculate_file_hash(fs, filepath)]
  /\ digests' = digests \cup
       { [path |-> filepath, existed |-> (filepath \in DOMAIN fs),
          bytes |-> IF filepath \in DOMAIN fs THEN fs[filepath] ELSE "",
          digest |-> calculate_file_hash(fs, filepath)] }
  /\ UNCHANGED << NotFetchVars, fs, decisions, downloadCalls, walkVars >>

\* the caller awaits one of the two download coroutines
await_download(fn, kind, directory, name, remote) ==
  /\ pc = "caller"
  /\ awaits < MaxCalls
  /\ awaits' = awaits + 1
  /\ LET filepath == FilePath(directory, name, kind)
         r == download_content(config, fs, kind, directory, name, remote)
     IN /\ lastCall' = [fn |-> fn, path |-> filepath,
                        existed |-> (filepath \in DOMAIN fs),
                        bytesBefore |->
                           IF filepath \in DOMAIN fs THEN fs[filepath] ELSE "",
                        decision |-> r.decision, status |-> r.status,
                        original_hash |-> r.original_hash,
                        new_hash |-> r.new_hash, result |-> r.result]
        /\ fs' = r.files
        /\ downloadCalls' = downloadCalls + r.called
        /\ decisions' = decisions \cup {r.decision}
  /\ UNCHANGED << NotFetchVars, digests, walkVars >>

\* await self.download_workbook(directory, workbook_id, workbook_name, username)
download_workbook(directory, name, remote) ==
  await_download("download_workbook", "workbook", directory, name, remote)

\* await self.download_datasource(directory, datasource_id, datasource_name, username)
download_datasource(directory, name, remote) ==
  await_download("download_datasource", "datasource", directory, name, remote)

FetchNext ==
  \/ \E filepath \in CallPaths : call_should_download_file(filepath)
  \/ \E filepath \in HashPaths : call_calculate_file_hash(filepath)
  \/ \E d \in CallDirs, n \in CallNames, remote \in RemoteResponses :
       download_workbook(d, n, remote)
  \/ \E d \in CallDirs, n \in CallNames, remote \in RemoteResponses :
       download_datasource(d, n, remote)

SpecFetch == FetchInit /\ [][FetchNext]_vars

\* ======================================================================
\* Properties of the fetch methods (SpecFetch)
\* ======================================================================
LastIsDownload == lastCall.fn \in {"download_workbook", "download_datasource"}

\* C6: should_download_file returns false exactly when overwrite_existing is
\* disabled and the target path exists, true in every other case, for any
\* path; the call changes no file and nothing else of the object's state.
C6_ShouldDownload ==
  /\ [](lastCall.fn = "should_download_file" =>
          /\ (lastCall.result = FALSE) <=>
                (lastCall.existed /\ ~ConfigGet(config, "overwrite_existing", FALSE))
          /\ lastCall.path \in DOMAIN fs <=> lastCall.existed)
  /\ [][(lastCall'.fn = "should_download_file" /\ awaits' # awaits) =>
          (UNCHANGED << fs, dirs, config, server, downloadCalls >>)]_vars

C6_Witness ==
  /\ lastCall.fn = "should_download_file"
  /\ lastCall.existed
  /\ "overwrite_existing" \in DOMAIN config /\ ~config["overwrite_existing"]
  /\ lastCall.result = FALSE
  /\ TRUE \in decisions

\* C7: for a fetch that is not skipped and whose remote download succeeds,
\* the returned flag equals (fingerprint before # fingerprint after):
\* byte-identical content over an existing file gives false, a created file
\* or a changed byte gives true.
C7_ChangedFlag ==
  (LastIsDownload /\ lastCall.decision /\ lastCall.status = "ok") =>
     /\ lastCall.path \in DOMAIN fs
     /\ lastCall.result = (lastCall.original_hash # lastCall.new_hash)
     /\ lastCall.result =
          (~lastCall.existed \/ lastCall.bytesBefore # fs[lastCall.path])

C7_Witness ==
  /\ LastIsDownload /\ lastCall.decision /\ lastCall.status = "ok"
  /\ lastCall.existed
  /\ lastCall.bytesBefore = fs[lastCall.path]
  /\ lastCall.result = FALSE

\* ======================================================================
\* create_and_fill_child_dir, awaited by its caller on an index whose
\* project dicts hold 'Name', 'Workbooks', 'Datasources', 'Child Dirs', the
\* keys lines 134-142 and 177 read (SpecWalk)
\* ======================================================================
\* (name, id) pairs as lines 150 and 155 read them: content[0], content[1]
WalkContents ==
  { [Workbooks |-> << >>, Datasources |-> << >>],
    [Workbooks |-> << << << "Q" >>, "w1" >> >>, Datasources |-> << >>],
    [Workbooks |-> << << << "Q" >>, "w1" >> >>,
     Datasources |-> << << << "R" >>, "d1" >> >>] }

\* ids of the projects whose parent is p, in increasing order
ChildrenOf(par, p) == SeqOfSet({ c \in DOMAIN par : par[c] = p })

\* download_tasks (lines 138-142): the workbooks, then the datasources
DownloadTasks(proj) ==
  [i \in 1..Len(proj.Workbooks) |-> << "workbook", proj.Workbooks[i] >>]
    \o [i \in 1..Len(proj.Datasources) |-> << "datasource", proj.Datasources[i] >>]

\* a call create_and_fill_child_dir(alle_ordner, base_dir, id, username)
Frame(id, base_dir) ==
  [id |-> id, base_dir |-> base_dir, phase |-> "enter", next |-> 1]

\* the names the projects of the index may bear: two names that differ only
\* by ' ' and '_' among plain ones; a name holding a '/' among plain ones
WalkNameTables ==
  { << << "S", " ", "E" >>, << "S", "_", "E" >>, << "S" >>, << "T" >> >>,
    << << "S" >>, << "S", "/", "E" >>, << "T" >>, << "U" >> >> }

WalkInit ==
  /\ listing = [p \in {} |-> [name |-> << >>, parent_id |-> NoParent]]
  /\ serverContent = [p \in {} |-> {}]
  /\ repoFiles = [t \in {} |-> ""]
  \* no step of the walk reads a key of self.config: base_dir is an argument
  /\ config = [k \in {} |-> FALSE]
  /\ max_workers \in 1..MaxWorkers
  /\ pc = "caller"
  /\ server = "Server"
  /\ signedIn = TRUE
  /\ signOuts = 0
  /\ cloned = TRUE
  /\ project_cache = << >>
  /\ root_projects = << >>
  /\ submitted = 0
  /\ rootFuture = << >>
  /\ rootResult = << >>
  /\ rootCoro = << >>
  /\ collected = {}
  /\ fs = [t \in {} |-> ""]
  /\ dirs = {}
  /\ outcomes = << >>
  /\ decisions = {}
  /\ downloadCalls = 0
  /\ commitCalls = 0
  /\ staged = [t \in {} |-> ""]
  /\ commits = 0
  /\ pushes = 0
  /\ raised = FALSE
  /\ failure = "none"
  /\ awaits = 0
  /\ lastCall = NoCall
  /\ digests = {}
  /\ \E n \in 1..MaxProjects :
       /\ \E par \in Forests(n), content \in [1..n -> WalkContents],
             names \in WalkNameTables, dangling \in BOOLEAN :
            alle_ordner =
              [p \in 1..n |->
                 [Name |-> names[p],
                  Workbooks |-> content[p].Workbooks,
                  Datasources |-> content[p].Datasources,
                  ChildDirs |-> (IF dangling /\ p = 1 THEN << n + 1 >> ELSE << >>)
                                  \o ChildrenOf(par, p)]]
       /\ visits = [p \in 1..n |-> 0]
       /\ child_id \in 1..(n + 1)
  /\ walkStack = << Frame(child_id, BaseDir) >>
  /\ handed = {}
  /\ ppcTasks = << >>
  /\ ppcSubmitted = 0
  /\ ppcFuture = << >>
  /\ ppcResult = << >>
  /\ results = << >>
  /\ returned = << >>

NotWalkVars ==
  << listing, serverContent, repoFiles, config, max_workers, pc, connVars,
     indexVars, poolVars, fs, outcomes, decisions, downloadCalls, gitVars,
     excVars, callVars >>

Top == walkStack[Len(walkStack)]
Pop == SubSeq(walkStack, 1, Len(walkStack) - 1)
SetTop(f) == [walkStack EXCEPT ![Len(walkStack)] = f]

\* walk_enter with alle_ordner[child_id] in place of alle_ordner.get(child_id):
\* an id the index lacks raises KeyError, which unwinds every frame
walk_enter_raising ==
  /\ walkStack # << >>
  /\ Top.phase = "enter"
  /\ IF Top.id \notin DOMAIN alle_ordner
       THEN /\ walkStack' = << >>
            /\ UNCHANGED << dirs, visits, ppcTasks, ppcSubmitted, ppcFuture,
                            ppcResult, results >>
       ELSE LET proj == alle_ordner[Top.id]
                tasks == DownloadTasks(proj)
            IN /\ dirs' = dirs \cup {ProjectDir(Top.base_dir, proj.Name)}
               /\ visits' = [visits EXCEPT ![Top.id] = @ + 1]
               /\ ppcTasks' = tasks
               /\ ppcSubmitted' = 0
               /\ ppcFuture' = [i \in DOMAIN tasks |-> "none"]
               /\ ppcResult' = [i \in DOMAIN tasks |-> None]
               /\ results' = << >>
               /\ walkStack' = SetTop([Top EXCEPT !.phase = "ppc"])
  /\ UNCHANGED << NotWalkVars, alle_ordner, returned, child_id, handed >>

\* create_and_fill_child_dir up to the pool of process_project_content:
\* lines 169-171 (an id the index lacks: return), else line 174 enters
\* process_project_content, lines 133-145 (directory made, tasks listed).
walk_enter ==
  /\ walkStack # << >>
  /\ Top.phase = "enter"
  /\ IF Top.id \notin DOMAIN alle_ordner
       THEN /\ walkStack' = Pop
            /\ UNCHANGED << dirs, visits, ppcTasks, ppcSubmitted, ppcFuture,
                            ppcResult, results >>
       ELSE LET proj == alle_ordner[Top.id]
                tasks == DownloadTasks(proj)
            IN /\ dirs' = dirs \cup {ProjectDir(Top.base_dir, proj.Name)}
               /\ visits' = [visits EXCEPT ![Top.id] = @ + 1]
               /\ ppcTasks' = tasks
               /\ ppcSubmitted' = 0
               /\ ppcFuture' = [i \in DOMAIN tasks |-> "none"]
               /\ ppcResult' = [i \in DOMAIN tasks |-> None]
               /\ results' = << >>
               /\ walkStack' = SetTop([Top EXCEPT !.phase = "ppc"])
  /\ UNCHANGED << NotWalkVars, alle_ordner, returned, child_id, handed >>

InPpc == walkStack # << >> /\ Top.phase = "ppc"

\* executor.submit(self.download_workbook | self.download_datasource, ...)
\* for the next task (lines 146-157)
ppc_submit ==
  /\ InPpc
  /\ ppcSubmitted < Len(ppcTasks)
  /\ ppcFuture' = [ppcFuture EXCEPT ![ppcSubmitted + 1] = "queued"]
  /\ ppcSubmitted' = ppcSubmitted + 1
  /\ LET task == ppcTasks[ppcSubmitted + 1]
         directory == ProjectDir(Top.base_dir, alle_ordner[Top.id].Name)
     IN handed' = handed \cup
          { << Top.id, ppcSubmitted + 1, FilePath(directory, task[2][1], task[1]) >> }
  /\ UNCHANGED << NotWalkVars, dirs, visits, alle_ordner, walkStack, ppcTasks,
                  ppcResult, results, returned, child_id >>

PpcRunning == { i \in DOMAIN ppcFuture : ppcFuture[i] = "running" }

\* a pool that runs one thread fewer than max_workers
ppc_worker_take_one_short(i) ==
  /\ InPpc
  /\ ppcFuture[i] = "queued"
  /\ \A j \in DOMAIN ppcFuture : j < i => ppcFuture[j] # "queued"
  /\ Cardinality(PpcRunning) < max_workers - 1
  /\ ppcFuture' = [ppcFuture EXCEPT ![i] = "running"]
  /\ UNCHANGED << NotWalkVars, dirs, visits, alle_ordner, walkStack, ppcTasks,
                  ppcSubmitted, ppcResult, results, returned,
                  child_id, handed >>

\* a worker thread of the project's pool (line 144) takes the first queued task
ppc_worker_take(i) ==
  /\ InPpc
  /\ ppcFuture[i] = "queued"
  /\ \A j \in DOMAIN ppcFuture : j < i => ppcFuture[j] # "queued"
  /\ Cardinality(PpcRunning) < max_workers
  /\ ppcFuture' = [ppcFuture EXCEPT ![i] = "running"]
  /\ UNCHANGED << NotWalkVars, dirs, visits, alle_ordner, walkStack, ppcTasks,
                  ppcSubmitted, ppcResult, results, returned,
                  child_id, handed >>

\* the worker calls download_workbook(...) or download_datasource(...), both
\* defined with `async def` (lines 83, 107), and stores what the call returns
ppc_worker_call(i) ==
  /\ InPpc
  /\ ppcFuture[i] = "running"
  /\ ppcFuture' = [ppcFuture EXCEPT ![i] = "done"]
  /\ ppcResult' = [ppcResult EXCEPT ![i] = CallAsyncDef.result]
  /\ UNCHANGED << NotWalkVars, dirs, visits, alle_ordner, walkStack, ppcTasks,
                  ppcSubmitted, results, returned,
                  child_id, handed >>

\* for future in as_completed(futures): results.append(future.result())
\* (lines 160-163)
ppc_collect(i) ==
  /\ InPpc
  /\ ppcSubmitted = Len(ppcTasks)
  /\ ppcFuture[i] = "done"
  /\ ppcFuture' = [ppcFuture EXCEPT ![i] = "collected"]
  /\ results' = Append(results, ppcResult[i])
  /\ UNCHANGED << NotWalkVars, dirs, visits, alle_ordner, walkStack, ppcTasks,
                  ppcSubmitted, ppcResult, returned,
                  child_id, handed >>

\* process_project_content returning as soon as the tasks were submitted,
\* the pool left running
ppc_return_early ==
  /\ InPpc
  /\ ppcSubmitted = Len(ppcTasks)
  /\ returned' = Append(returned, [project |-> Top.id, results |-> results])
  /\ walkStack' = SetTop([Top EXCEPT !.phase = "children"])
  /\ UNCHANGED << NotWalkVars, dirs, visits, alle_ordner, ppcTasks, ppcSubmitted,
                  ppcFuture, ppcResult, results,
                  child_id, handed >>

\* return results (line 165); create_and_fill_child_dir goes on to line 177
ppc_return ==
  /\ InPpc
  /\ ppcSubmitted = Len(ppcTasks)
  /\ \A i \in DOMAIN ppcFuture : ppcFuture[i] = "collected"
  /\ returned' = Append(returned, [project |-> Top.id, results |-> results])
  /\ walkStack' = SetTop([Top EXCEPT !.phase = "children"])
  /\ UNCHANGED << NotWalkVars, dirs, visits, alle_ordner, ppcTasks, ppcSubmitted,
                  ppcFuture, ppcResult, results,
                  child_id, handed >>

\* for child in proj['Child Dirs']: await self.create_and_fill_child_dir(...)
\* (lines 177-178); the call returns when the list is exhausted
walk_children ==
  /\ walkStack # << >>
  /\ Top.phase = "children"
  /\ LET children == alle_ordner[Top.id].ChildDirs IN
       IF Top.next <= Len(children)
         THEN walkStack' = Append(SetTop([Top EXCEPT !.next = @ + 1]),
                                  Frame(children[Top.next], Top.base_dir))
         ELSE walkStack' = Pop
  /\ UNCHANGED << NotWalkVars, dirs, visits, alle_ordner, ppcTasks, ppcSubmitted,
                  ppcFuture, ppcResult, results, returned,
                  child_id, handed >>

WalkNext ==
  \/ walk_enter
  \/ ppc_submit
  \/ \E i \in DOMAIN ppcFuture : ppc_worker_take(i)
  \/ \E i \in DOMAIN ppcFuture : ppc_worker_call(i)
  \/ \E i \in DOMAIN ppcFuture : ppc_collect(i)
  \/ ppc_return
  \/ walk_children

SpecWalk == WalkInit /\ [][WalkNext]_vars

\* ======================================================================
\* Properties of process_project_content (SpecWalk)
\* ======================================================================
\* C3: process_project_content returns exactly one result per workbook and
\* datasource of the project, each the outcome of that item's fetch, whatever
\* happens to the download of another item.
C3_OneOutcomePerItem ==
  \A k \in DOMAIN returned :
     LET proj == alle_ordner[returned[k].project] IN
       /\ Len(returned[k].results) = Len(proj.Workbooks) + Len(proj.Datasources)
       /\ \A j \in DOMAIN returned[k].results : returned[k].results[j] # Coroutine

\* ======================================================================
\* Properties of a run (Spec)
\* ======================================================================
\* failures before the traversal block: the commit step is never reached
SetupFailures == {"nocreds", "noserver", "denied", "clone", "list"}
\* the fatal errors: authentication, clone, commit/push
FatalFailures == {"nocreds", "noserver", "denied", "clone", "add", "commit", "push"}

\* C1: the commit step starts only after the fetch of every content item of
\* every project of every root traversal has completed, with success or
\* failure: once _commit_and_push_changes is called, every item of a
\* reachable project has its outcome.
C1_CommitAfterAllFetches ==
  commitCalls > 0 =>
    \A it \in Items : it[1] \in Reachable => ItemPath(it) \in DOMAIN outcomes

\* C2 as stated: a run in which connection, clone and the traversals
\* finished without a fatal error performs exactly one commit and one push.
C2_OneCommitOnePush ==
  (pc = "done" /\ failure \notin SetupFailures) => (commits = 1 /\ pushes = 1)

\* C2 amended: the commit step is invoked at most once in any run, and exactly
\* once when connection, clone, listing and the traversal block raised
\* nothing; it makes one commit and one push when staging, commit and push
\* succeed, and stops at the first of them that raises; never more than one
\* commit or push.
C2_CommitStepOnce ==
  /\ commitCalls <= 1 /\ commits <= 1 /\ pushes <= 1
  /\ (pc = "done" /\ failure \notin SetupFailures) => commitCalls = 1
  /\ (pc = "done" /\ failure \in {"none", "sign_out"}) => (commits = 1 /\ pushes = 1)
  /\ failure \in {"add", "commit"} => (commits = 0 /\ pushes = 0)
  /\ failure = "push" => (commits = 1 /\ pushes = 0)
  /\ failure \in SetupFailures => commitCalls = 0

C2_Witness ==
  /\ pc = "done" /\ failure = "none"
  /\ Len(root_projects) >= 2
  /\ commitCalls = 1 /\ commits = 1 /\ pushes = 1

C5_EachReachableVisitedOnce ==
  commitCalls > 0 =>
    \A p \in Reachable :
       visits[p] = 1 /\ ProjectDir(BaseDir, listing[p].name) \in dirs

\* C9 as stated: after a fatal error (authentication, clone, commit/push)
\* the error is propagated and sign-out has been performed when the run ends.
C9_FatalSignsOut ==
  (pc = "done" /\ failure \in FatalFailures) => (raised /\ signOuts = 1)

\* C9 amended: after a fatal error the error is propagated out of
\* backup_tableau and no traversal or commit step runs after it; sign-out
\* is performed before the run ends when self.server had been assigned
\* (sign-in rejected, clone failed, commit/push failed), and is not
\* attempted when connect_to_tableau failed before assigning it
\* (credentials missing, Server construction raised).
C9_FatalPropagates ==
  /\ [](/\ (pc = "done" /\ failure \in FatalFailures) => raised
        /\ (pc = "done" /\ failure \in {"denied", "clone", "add", "commit", "push"})
              => (server # None /\ signOuts = 1)
        /\ (pc = "done" /\ failure \in {"nocreds", "noserver"})
              => (server = None /\ signOuts = 0))
  /\ [][(failure \in FatalFailures) =>
          (UNCHANGED << indexVars, poolVars, fetchVars, gitVars >>)]_vars

C9_Witness ==
  pc = "done" /\ failure = "push" /\ raised /\ signOuts = 1 /\ commits = 1

\* C10: in a run with overwrite_existing disabled in which the target file of
\* every content item already exists, no should_download_file call returns
\* true, no remote download is invoked, no file is modified, and the commit
\* step still runs.
OverwriteDisabled == ~ConfigGet(config, "overwrite_existing", FALSE)
AllTargetsExist == \A it \in Items : ItemPath(it) \in DOMAIN repoFiles

C10_RerunFetchesNothing ==
  (cloned /\ OverwriteDisabled /\ AllTargetsExist) =>
     /\ TRUE \notin decisions
     /\ downloadCalls = 0
     /\ fs = repoFiles
     /\ (pc = "done" /\ failure \notin SetupFailures) => commitCalls = 1

C10_Witness ==
  /\ pc = "done" /\ failure = "none"
  /\ OverwriteDisabled /\ AllTargetsExist
  /\ Items # {} /\ (\E it \in Items : it[1] \in Reachable)
  /\ fs = repoFiles /\ commitCalls = 1 /\ commits = 1

\* ======================================================================
\* Properties of the directory layout (SpecWalk)
\* ======================================================================
\* C11: the target path derived from (project name with spaces replaced by
\* underscores, content name, kind extension) is distinct for every two
\* distinct content items: no two tasks handed to a pool write the same path.
C11_DistinctItemsDistinctPaths ==
  \A a, b \in handed : (a[1] # b[1] \/ a[2] # b[2]) => a[3] # b[3]

\* C12: every visited project, root or descendant, is a directory that is a
\* direct child of the base directory, never nested under the directory of
\* its parent project.
C12_DirectChildOfBaseDir ==
  \A d \in dirs : Len(d) = Len(BaseDir) + 1 /\ SubSeq(d, 1, Len(BaseDir)) = BaseDir

\* ======================================================================
\* Properties of the project index (Spec)
\* ======================================================================
\* the keys process_project_content and create_and_fill_child_dir read from
\* a project record (lines 134, 139, 141, 177)
RecordKeysRead == {"Name", "Workbooks", "Datasources", "Child Dirs"}

\* C13: after the index is built from the flat listing, every project record
\* holds its name, parent id, children and workbook/datasource lists, and the
\* children of a project p are exactly the projects whose parent id is p,
\* each once.
C13_IndexRecordsComplete ==
  \A p \in DOMAIN project_cache :
    /\ "parent_id" \in DOMAIN project_cache[p]
    /\ RecordKeysRead \subseteq DOMAIN project_cache[p]
    /\ LET children == project_cache[p]["Child Dirs"] IN
         /\ Range(children) = { q \in DOMAIN listing : listing[q].parent_id = p }
         /\ Len(children) = Cardinality(Range(children))

\* the projects of the listing that have no parent id
Parentless == { p \in DOMAIN listing : listing[p].parent_id = NoParent }

\* C14: the root set computed from the flat listing is exactly the set of
\* projects with no parent id, each once, and one root task is submitted and
\* called per such project: a listing with exactly one parentless project
\* yields exactly one root traversal call.
C14_RootsAreParentless ==
  project_cache # << >> =>
    /\ Range(root_projects) = Parentless
    /\ Len(root_projects) = Cardinality(Parentless)
    /\ DOMAIN rootFuture = Parentless
    /\ submitted <= Cardinality(Parentless)
    /\ commitCalls > 0 =>
         /\ submitted = Cardinality(Parentless)
         /\ \A r \in Parentless : rootCoro[r] = "created"

\* a listing of two projects, exactly one of them parentless, whose single
\* root task was submitted and called
C14_Witness ==
  /\ Cardinality(DOMAIN listing) = 2 /\ Cardinality(Parentless) = 1
  /\ commitCalls > 0
  /\ Len(root_projects) = 1 /\ submitted = 1
  /\ Cardinality(DOMAIN rootFuture) = 1

\* ======================================================================
\* Properties of create_and_fill_child_dir (SpecWalk)
\* ======================================================================
RECURSIVE WalkReach(_, _)
\* the ids met within k steps along 'Child Dirs' from the ids of S
WalkReach(S, k) ==
  IF k = 0 THEN S
  ELSE WalkReach(S \cup { c \in 1..(Len(alle_ordner) + 1) :
                           \E p \in S \cap DOMAIN alle_ordner :
                             c \in Range(alle_ordner[p].ChildDirs) }, k - 1)

\* the projects of the index the call on child_id has to visit
WalkReachable == WalkReach({child_id}, MaxProjects + 1) \cap DOMAIN alle_ordner

\* the call at the top of the stack is on an id the index lacks
AtAbsentId ==
  walkStack # << >> /\ Top.phase = "enter" /\ Top.id \notin DOMAIN alle_ordner

\* C15: visiting an id absent from the index, as the root or as a child, is
\* a no-op: the call returns to its caller with no directory created, no
\* fetch issued and no error raised, and the traversal goes on with the
\* remaining siblings, so that a finished traversal has visited every project
\* it can reach exactly once.
C15_AbsentIdIsNoOp ==
  /\ [][AtAbsentId =>
          (/\ walkStack' = Pop
           /\ UNCHANGED << dirs, visits, handed, returned, fs, outcomes,
                           decisions, downloadCalls, excVars >>)]_vars
  /\ [](walkStack = << >> =>
          /\ ~raised
          /\ \A p \in DOMAIN alle_ordner :
               visits[p] = (IF p \in WalkReachable THEN 1 ELSE 0))

\* a finished call on project 1 whose first child id is absent from the
\* index and whose second child was visited after it
C15_Witness ==
  /\ walkStack = << >> /\ child_id = 1 /\ alle_ordner # << >>
  /\ Len(alle_ordner[1].ChildDirs) = 2
  /\ alle_ordner[1].ChildDirs[1] \notin DOMAIN alle_ordner
  /\ alle_ordner[1].ChildDirs[2] \in DOMAIN alle_ordner
  /\ visits[alle_ordner[1].ChildDirs[2]] = 1
  /\ ~raised

\* The awaited call keeps being run by the event loop, and the threads of a
\* pool keep taking and finishing the tasks handed to it: every step of the
\* walk that stays possible is eventually taken.
SpecWalkFair == WalkInit /\ [][WalkNext]_vars /\ WF_vars(WalkNext)

\* C16: on a finite index whose parent/child edges form a forest, the
\* traversal started on any id terminates: the call of
\* create_and_fill_child_dir eventually returns to its caller.
C16_TraversalTerminates == <>(walkStack = << >>)

\* a traversal that went two projects deep and returned
C16_Witness ==
  /\ walkStack = << >>
  /\ Len(returned) >= 2
  /\ \E p \in DOMAIN alle_ordner :
       alle_ordner[p].ChildDirs # << >> /\ visits[p] = 1
         /\ \E c \in Range(alle_ordner[p].ChildDirs) \cap DOMAIN alle_ordner :
              visits[c] = 1

\* The main thread and the threads of the root pool keep running.
SpecFair == Init /\ [][Next]_vars /\ WF_vars(Next)

\* C16, the run: once the listing was indexed, backup_tableau reaches the
\* commit step (line 233), whatever the shape of the forest.
C16_RunReachesCommit == (project_cache # << >>) ~> (commitCalls = 1)

\* ======================================================================
\* Properties of calculate_file_hash (SpecFetch)
\* ======================================================================
\* C17: calculate_file_hash is a function of the file's current bytes only:
\* it changes no file, two calls that saw the same bytes returned the same
\* digest, whatever the path and whatever was called in between, and the
\* value returned for an absent file, the empty string, is the digest of no
\* existing file, the empty file included.
C17_HashOfBytes ==
  /\ [](\A a, b \in digests :
          /\ (a.existed /\ b.existed /\ a.bytes = b.bytes) => a.digest = b.digest
          /\ ~a.existed => a.digest = ""
          /\ a.existed => a.digest # ""
          /\ (a.existed /\ ~b.existed) => a.digest # b.digest)
  /\ [][(lastCall'.fn = "calculate_file_hash" /\ awaits' # awaits) =>
          (UNCHANGED << fs, dirs, decisions, downloadCalls >>)]_vars

\* two calls were made, one on an absent file and one on an existing file
\* without content
C17_Witness ==
  \E a, b \in digests :
    ~a.existed /\ b.existed /\ b.bytes = "" /\ a.digest = "" /\ b.digest # ""

RECURSIVE Preorder(_), PreorderAll(_)
\* the projects under id, each before its children, the children in the
\* order of 'Child Dirs'
Preorder(id) ==
  IF id \notin DOMAIN alle_ordner THEN << >>
  ELSE << id >> \o PreorderAll(alle_ordner[id].ChildDirs)

PreorderAll(ids) ==
  IF ids = << >> THEN << >> ELSE Preorder(Head(ids)) \o PreorderAll(Tail(ids))

\* the projects whose process_project_content call has returned, in order
ReturnedProjects == [i \in DOMAIN returned |-> returned[i].project]

C19_SignOutOnceAndLast ==
  /\ [](/\ signOuts <= 1
        /\ pc = "done" => signOuts = (IF server # None THEN 1 ELSE 0)
        /\ signOuts = 1 => (pc = "done" /\ server # None))
  /\ [][(signOuts' = signOuts + 1) =>
          (/\ pc = "finally"
           /\ ~raised => (commits = 1 /\ pushes = 1))]_vars
  /\ [][(signOuts >= 1) =>
          (UNCHANGED << server, signedIn, signOuts, indexVars, poolVars,
                        fetchVars, gitVars >>)]_vars

\* a run without failure that has committed, pushed and then signed out
C19_Witness ==
  /\ pc = "done" /\ ~raised /\ failure = "none"
  /\ server # None /\ signOuts = 1
  /\ pushes = 1 /\ collected = Range(root_projects)

====
